---- MODULE Spec2Model ----
(***************************************************************************)
(* PageFetcher of paging_test.py: one caller thread driving a paged result *)
(* source (the driver's response future), whose callbacks run in the       *)
(* source's own context and interleave with the caller statement by        *)
(* statement.                                                              *)
(***************************************************************************)
EXTENDS Integers, Sequences, FiniteSets, TLC

VARIABLES
    pages,            \* PageFetcher.pages: sequence of Page.data row sequences
    error,            \* PageFetcher.error
    requested_pages,  \* PageFetcher.requested_pages
    retrieved_pages,  \* PageFetcher.retrieved_pages
    registered,       \* the future holds handle_page / handle_error
    has_more_pages,   \* future.has_more_pages
    inflight,         \* fetches the source has begun and not yet resolved
    fetchCalls,       \* calls of future.start_fetching_next_page() so far
    delivered,        \* the row sequences the source handed to handle_page
    failed,           \* the exceptions the source handed to handle_error
    pc,               \* the caller's position
    op,               \* the caller's current (or last) operation
    result,           \* how that operation ended
    seconds,          \* wait's argument
    now,              \* time.time(), counted from the entry of the current wait
    expiry,           \* wait's local expiry
    cb,               \* position of the running handle_page callback
    cbRows,           \* handle_page's argument rows
    cbDone,           \* rows of cbRows already added to the new Page
    cbRaised,         \* the exception last raised out of a callback
    pre,              \* the counters as they were when the operation was called
    opCb,             \* a callback was invoked since the operation was called
    opErr,            \* handle_error was invoked while the operation had its
                      \* own request out (from the request up to the end of wait)
    late,             \* a page was handed to handle_page after an operation
                      \* had raised the timeout and before the next call
    \* Several fetchers over distinct sources (test_query_isolation):
    heap,             \* the list objects: heap[r] is the content of list r
    inst,             \* inst[f]: the attributes of fetcher f
    isrc,             \* isrc[f]: the future fetcher f wraps
    ipc,              \* ipc[f]: where the caller is in an operation on f
    actor,            \* the fetcher the last step belonged to
    \* The row-set helpers of datahelp.py and PageAssertionMixin:
    rowsA,            \* a list of row dicts (the actual rows)
    rowsB,            \* a second list of row dicts (the expected rows)
    shuffled,         \* rowsB was made by reordering rowsA
    fpc,              \* which helpers have been applied
    flatA,            \* flatten(rowsA)
    flatB,            \* flatten(rowsB)
    setA,             \* flatten_into_set(rowsA)
    setB,             \* flatten_into_set(rowsB)
    verdict,          \* how assertIsSubsetOf(rowsA, rowsB) ended
    verdictEq,        \* how assertEqualIgnoreOrder(rowsA, rowsB) ended
    \* The row fixtures of datahelp.py:
    fixture,          \* the data rows a test declares, as their author means them
    format_funcs,     \* the columns the caller supplies a format function for
    xpc,              \* whether parse_data_into_dicts has been called
    parsed,           \* what parse_data_into_dicts returned, and the calls of
                      \* format functions it made
    \* The statement behind the future (test_page_size_change):
    fetch_size,       \* fetch_size[k]: stmt.fetch_size as the source's k-th
                      \* fetch reads it (the first fetch is execute_async's)
    prompt            \* the source answers every fetch with a page, and does
                      \* so before the caller's wait for it runs out

pagingVars == <<pages, error, requested_pages, retrieved_pages, registered,
                has_more_pages, inflight, fetchCalls, delivered, failed, pc,
                op, result, seconds, now, expiry, cb, cbRows, cbDone,
                cbRaised, pre, opCb, opErr, late>>
isoVars  == <<heap, inst, isrc, ipc, actor>>
flatVars == <<rowsA, rowsB, shuffled, fpc, flatA, flatB, setA, setB, verdict,
              verdictEq>>
fixVars  == <<fixture, format_funcs, xpc, parsed>>
sizeVars == <<fetch_size>>
liveVars == <<prompt>>
vars == <<pagingVars, isoVars, flatVars, fixVars, sizeVars, liveVars>>

fetcherVars == <<pages, error, requested_pages, retrieved_pages>>
sourceVars  == <<registered, has_more_pages, inflight, fetchCalls, delivered, failed>>
waitVars    == <<seconds, now, expiry>>
cbVars      == <<cb, cbRows, cbDone, cbRaised>>
histVars    == <<pre, opCb, opErr, late>>

\* ---------------------------------------------------------------- bounds
MaxPages   == 3     \* pages a source holds at most
MaxRows    == 2     \* rows in one page at most
MaxFetches == 3     \* start_fetching_next_page calls before the caller stops asking

\* ------------------------------------------------------------- constants
None == -1                  \* the class attributes' None, for the two counters
FirstPageSeconds == 30      \* self.wait(seconds=30) in __init__
DefaultSeconds == 5         \* def wait(self, seconds=5)
TimeoutMessage == "Requested pages were not delivered before timeout."

NoError == "None"
Excs == {"Unavailable", "OperationTimedOut"}
PageSizes == 0..MaxRows

\* The rows of all the pages in ps, in page order then row order.
RECURSIVE Concat(_)
Concat(ps) == IF ps = <<>> THEN <<>> ELSE Head(ps) \o Concat(Tail(ps))

\* The k-th row of the query's result set: all rows differ, and they come in
\* descending order, so that sorting, dropping or repeating rows shows.
ResultRow(k) == 0 - k

\* The next n rows of the result set after the pages the source delivered.
NextRows(n) == [i \in 1..n |-> ResultRow(Len(Concat(delivered)) + i)]
WaitArgs == {0, DefaultSeconds}

NoResult   == [kind |-> "none",   type |-> "", msg |-> ""]
Returned   == [kind |-> "return", type |-> "", msg |-> ""]
Raised(type, msg) == [kind |-> "raise", type |-> type, msg |-> msg]

Snapshot == [requested |-> requested_pages, retrieved |-> retrieved_pages,
             pagecount |-> Len(pages), fetches |-> fetchCalls,
             more |-> has_more_pages]

\* The caller's positions inside wait, and those at which the running
\* operation has a request of its own out at the source.
InWait == {"wait_start", "wait_loop"}
RequestOut == {"init_requested", "init_retrieved", "rp_inc", "rap_inc"} \cup InWait

\* ------------------------------------------------------------- accessors
retrieved_pagecount == Len(pages)
num_results_all_pages == [i \in 1..Len(pages) |-> Len(pages[i])]

\* lst[i] of a Python list: indices 0..len-1 count from the front, -len..-1
\* from the back, any other index raises IndexError.
PyGetItem(lst, i) ==
    IF 0 <= i /\ i < Len(lst) THEN [exc |-> "", val |-> lst[i + 1]]
    ELSE IF 0 - Len(lst) <= i /\ i < 0
        THEN [exc |-> "", val |-> lst[Len(lst) + i + 1]]
        ELSE [exc |-> "IndexError", val |-> <<>>]

\* retrieved_page_data read with page_num itself as the list index
retrieved_page_data_0(page_num) == PyGetItem(pages, page_num)

\* return self.pages[page_num - 1].data
retrieved_page_data(page_num) == PyGetItem(pages, page_num - 1)

\* return len(self.pages[page_num - 1].data)
num_results(page_num) ==
    LET got == PyGetItem(pages, page_num - 1)
    IN  IF got.exc # "" THEN got ELSE [exc |-> "", val |-> Len(got.val)]

\* The rows of s in ascending order.
RECURSIVE InsertSorted(_, _)
InsertSorted(x, s) ==
    IF s = <<>> THEN <<x>>
    ELSE IF x <= Head(s) THEN <<x>> \o s
         ELSE <<Head(s)>> \o InsertSorted(x, Tail(s))
RECURSIVE SortRows(_)
SortRows(s) == IF s = <<>> THEN <<>> ELSE InsertSorted(Head(s), SortRows(Tail(s)))

\* all_retrieved_data that keeps only the page it saw last
all_retrieved_data_last == IF pages = <<>> THEN <<>> ELSE pages[Len(pages)]

\* all_retrieved_data that returns the combined rows sorted
all_retrieved_data_sorted == SortRows(Concat(pages))

\* for page in self.pages: all_pages_combined.extend(page.data[:])
all_retrieved_data == Concat(pages)

PagingInit ==
    /\ pages = <<>>
    /\ error = NoError
    /\ requested_pages = None
    /\ retrieved_pages = None
    /\ registered = FALSE
    /\ has_more_pages = FALSE
    /\ inflight = 1
    /\ fetchCalls = 0
    /\ delivered = <<>>
    /\ failed = <<>>
    /\ pc = "init"
    /\ op = "construct"
    /\ result = NoResult
    /\ seconds = 0
    /\ now = 0
    /\ expiry = 0
    /\ cb = "idle"
    /\ cbRows = <<>>
    /\ cbDone = 0
    /\ cbRaised = NoError
    /\ pre = [requested |-> None, retrieved |-> None, pagecount |-> 0,
              fetches |-> 0, more |-> FALSE]
    /\ opCb = FALSE
    /\ opErr = FALSE
    /\ late = FALSE

\* ------------------------------------------------------ PageFetcher.wait
\* The statement after a wait that returned: __init__ and request_page are
\* over, request_all_pages goes back to its loop test. wait's argument and
\* locals end with the call.
wait_returns ==
    /\ pc' = IF op = "request_all_pages" THEN "rap_check" ELSE "idle"
    /\ result' = IF op = "request_all_pages" THEN result ELSE Returned
    /\ seconds' = 0 /\ now' = 0 /\ expiry' = 0

\* wait raised: the exception leaves the operation that called wait; a
\* failed __init__ leaves the caller without a fetcher.
wait_raises ==
    /\ pc' = IF op = "construct" THEN "dead" ELSE "idle"
    /\ result' = Raised("RuntimeError", TimeoutMessage)
    /\ seconds' = 0 /\ now' = 0 /\ expiry' = 0

\* expiry = time.time() + seconds
wait_start ==
    /\ UNCHANGED <<isoVars, flatVars, fixVars, sizeVars, liveVars>>
    /\ pc = "wait_start"
    /\ now' = 0
    /\ expiry' = 0 + seconds
    /\ pc' = "wait_loop"
    /\ UNCHANGED <<fetcherVars, sourceVars, cbVars, histVars, op, result, seconds>>

\* wait_poll with the test written retrieved_pages <= requested_pages
wait_poll_le ==
    /\ UNCHANGED <<isoVars, flatVars, fixVars, sizeVars, liveVars>>
    /\ pc = "wait_loop"
    /\ now < expiry
    /\ IF retrieved_pages <= requested_pages
         THEN wait_returns
         ELSE UNCHANGED <<pc, result, waitVars>>
    /\ UNCHANGED <<fetcherVars, sourceVars, cbVars, histVars, op>>

\* while time.time() < expiry: if requested_pages == retrieved_pages: return
wait_poll ==
    /\ UNCHANGED <<isoVars, flatVars, fixVars, sizeVars, liveVars>>
    /\ pc = "wait_loop"
    /\ now < expiry
    /\ IF requested_pages = retrieved_pages
         THEN wait_returns
         ELSE UNCHANGED <<pc, result, waitVars>>
    /\ UNCHANGED <<fetcherVars, sourceVars, cbVars, histVars, op>>

\* wait_raise with the raise left out: the loop ends and wait returns
wait_expire_returns ==
    /\ UNCHANGED <<isoVars, flatVars, fixVars, sizeVars, liveVars>>
    /\ pc = "wait_loop"
    /\ ~(now < expiry)
    /\ wait_returns
    /\ UNCHANGED <<fetcherVars, sourceVars, cbVars, histVars, op>>

\* wait_raise that also drops the callbacks from the future
wait_raise_cancels ==
    /\ UNCHANGED <<isoVars, flatVars, fixVars, sizeVars, liveVars>>
    /\ pc = "wait_loop"
    /\ ~(now < expiry)
    /\ wait_raises
    /\ registered' = FALSE
    /\ UNCHANGED <<fetcherVars, has_more_pages, inflight, fetchCalls,
                   delivered, failed, cbVars, histVars, op>>

\* wait_raise that fetches the page again and waits anew, while it may
wait_raise_refetches ==
    /\ UNCHANGED <<isoVars, flatVars, fixVars, sizeVars, liveVars>>
    /\ pc = "wait_loop"
    /\ ~(now < expiry)
    /\ IF op \in {"request_page", "request_all_pages"} /\ fetchCalls < MaxFetches
         THEN /\ inflight' = inflight + 1
              /\ fetchCalls' = fetchCalls + 1
              /\ pc' = "wait_start"
              /\ UNCHANGED <<result, waitVars>>
         ELSE /\ wait_raises
              /\ UNCHANGED <<inflight, fetchCalls>>
    /\ UNCHANGED <<fetcherVars, registered, has_more_pages, delivered, failed,
                   cbVars, histVars, op>>

\* wait_raise that takes back the request it gave up on
wait_raise_rolls_back ==
    /\ UNCHANGED <<isoVars, flatVars, fixVars, sizeVars, liveVars>>
    /\ pc = "wait_loop"
    /\ ~(now < expiry)
    /\ wait_raises
    /\ requested_pages' = IF op \in {"request_page", "request_all_pages"}
                             THEN requested_pages - 1
                             ELSE requested_pages
    /\ UNCHANGED <<pages, error, retrieved_pages, sourceVars, cbVars,
                   histVars, op>>

\* the loop test fails: raise RuntimeError(...)
wait_raise ==
    /\ UNCHANGED <<isoVars, flatVars, fixVars, sizeVars, liveVars>>
    /\ pc = "wait_loop"
    /\ ~(now < expiry)
    /\ wait_raises
    /\ UNCHANGED <<fetcherVars, sourceVars, cbVars, histVars, op>>

\* the wall clock moves while the caller spins in wait
Tick ==
    /\ UNCHANGED <<isoVars, flatVars, fixVars, sizeVars, liveVars>>
    /\ pc = "wait_loop"
    /\ now < expiry
    /\ now' = now + 1
    /\ UNCHANGED <<fetcherVars, sourceVars, cbVars, histVars, pc, op, result,
                   seconds, expiry>>

\* a direct call pf.wait(s)
wait_call(s) ==
    /\ UNCHANGED <<isoVars, flatVars, fixVars, sizeVars, liveVars>>
    /\ pc = "idle"
    /\ op' = "wait"
    /\ result' = NoResult
    /\ seconds' = s
    /\ pc' = "wait_start"
    /\ pre' = Snapshot
    /\ opCb' = FALSE
    /\ opErr' = FALSE
    /\ late' = FALSE
    /\ UNCHANGED <<fetcherVars, sourceVars, cbVars, now, expiry>>

\* -------------------------------------------------- PageFetcher.__init__
\* self.pages = []; self.future = future; self.future.add_callbacks(...)
init_register ==
    /\ UNCHANGED <<isoVars, flatVars, fixVars, sizeVars, liveVars>>
    /\ pc = "init"
    /\ pages' = <<>>
    /\ registered' = TRUE
    /\ pc' = "init_requested"
    /\ UNCHANGED <<error, requested_pages, retrieved_pages, has_more_pages,
                   inflight, fetchCalls, delivered, failed, op, result,
                   waitVars, cbVars, histVars>>

\* self.requested_pages = 1
init_requested ==
    /\ UNCHANGED <<isoVars, flatVars, fixVars, sizeVars, liveVars>>
    /\ pc = "init_requested"
    /\ requested_pages' = 1
    /\ pc' = "init_retrieved"
    /\ UNCHANGED <<pages, error, retrieved_pages, sourceVars, op, result,
                   waitVars, cbVars, histVars>>

\* init_retrieved without the wait for the first page
init_retrieved_nowait ==
    /\ UNCHANGED <<isoVars, flatVars, fixVars, sizeVars, liveVars>>
    /\ pc = "init_retrieved"
    /\ retrieved_pages' = 0
    /\ pc' = "idle"
    /\ result' = Returned
    /\ UNCHANGED <<pages, error, requested_pages, sourceVars, op, waitVars,
                   cbVars, histVars>>

\* self.retrieved_pages = 0; self.wait(seconds=30)
init_retrieved ==
    /\ UNCHANGED <<isoVars, flatVars, fixVars, sizeVars, liveVars>>
    /\ pc = "init_retrieved"
    /\ retrieved_pages' = 0
    /\ seconds' = FirstPageSeconds
    /\ pc' = "wait_start"
    /\ UNCHANGED <<pages, error, requested_pages, sourceVars, op, result,
                   now, expiry, cbVars, histVars>>

\* ---------------------------------------------- PageFetcher.request_page
request_page_call ==
    /\ UNCHANGED <<isoVars, flatVars, fixVars, sizeVars, liveVars>>
    /\ pc = "idle"
    /\ fetchCalls < MaxFetches \/ ~has_more_pages
    /\ op' = "request_page"
    /\ result' = NoResult
    /\ pc' = "rp_check"
    /\ pre' = Snapshot
    /\ opCb' = FALSE
    /\ opErr' = FALSE
    /\ late' = FALSE
    /\ UNCHANGED <<fetcherVars, sourceVars, cbVars, waitVars>>

\* request_page_check without the has_more_pages test
request_page_check_always ==
    /\ UNCHANGED <<isoVars, flatVars, fixVars, sizeVars, liveVars>>
    /\ pc = "rp_check"
    /\ pc' = "rp_fetch"
    /\ UNCHANGED <<fetcherVars, sourceVars, cbVars, waitVars, histVars, op,
                   result>>

\* if self.future.has_more_pages: ... ; return self
request_page_check ==
    /\ UNCHANGED <<isoVars, flatVars, fixVars, sizeVars, liveVars>>
    /\ pc = "rp_check"
    /\ IF has_more_pages
         THEN pc' = "rp_fetch" /\ UNCHANGED result
         ELSE pc' = "idle" /\ result' = Returned
    /\ UNCHANGED <<fetcherVars, sourceVars, cbVars, waitVars, histVars, op>>

\* self.future.start_fetching_next_page()
request_page_fetch ==
    /\ UNCHANGED <<isoVars, flatVars, fixVars, sizeVars, liveVars>>
    /\ pc = "rp_fetch"
    /\ inflight' = inflight + 1
    /\ fetchCalls' = fetchCalls + 1
    /\ pc' = "rp_inc"
    /\ UNCHANGED <<fetcherVars, registered, has_more_pages, delivered, failed,
                   cbVars, waitVars, histVars, op, result>>

\* self.requested_pages += 1; self.wait()
request_page_inc ==
    /\ UNCHANGED <<isoVars, flatVars, fixVars, sizeVars, liveVars>>
    /\ pc = "rp_inc"
    /\ requested_pages' = requested_pages + 1
    /\ seconds' = DefaultSeconds
    /\ pc' = "wait_start"
    /\ UNCHANGED <<pages, error, retrieved_pages, sourceVars, cbVars, now,
                   expiry, histVars, op, result>>

\* ----------------------------------------- PageFetcher.request_all_pages
request_all_pages_call ==
    /\ UNCHANGED <<isoVars, flatVars, fixVars, sizeVars, liveVars>>
    /\ pc = "idle"
    /\ fetchCalls < MaxFetches \/ ~has_more_pages
    /\ op' = "request_all_pages"
    /\ result' = NoResult
    /\ pc' = "rap_check"
    /\ pre' = Snapshot
    /\ opCb' = FALSE
    /\ opErr' = FALSE
    /\ late' = FALSE
    /\ UNCHANGED <<fetcherVars, sourceVars, cbVars, waitVars>>

\* request_all_pages_check with the while written as an if
request_all_pages_check_if ==
    /\ UNCHANGED <<isoVars, flatVars, fixVars, sizeVars, liveVars>>
    /\ pc = "rap_check"
    /\ IF has_more_pages /\ fetchCalls = pre.fetches
         THEN pc' = "rap_fetch" /\ UNCHANGED result
         ELSE pc' = "idle" /\ result' = Returned
    /\ UNCHANGED <<fetcherVars, sourceVars, cbVars, waitVars, histVars, op>>

\* while self.future.has_more_pages: ... ; return self
request_all_pages_check ==
    /\ UNCHANGED <<isoVars, flatVars, fixVars, sizeVars, liveVars>>
    /\ pc = "rap_check"
    /\ IF has_more_pages
         THEN pc' = "rap_fetch" /\ UNCHANGED result
         ELSE pc' = "idle" /\ result' = Returned
    /\ UNCHANGED <<fetcherVars, sourceVars, cbVars, waitVars, histVars, op>>

\* self.future.start_fetching_next_page()
request_all_pages_fetch ==
    /\ UNCHANGED <<isoVars, flatVars, fixVars, sizeVars, liveVars>>
    /\ pc = "rap_fetch"
    /\ inflight' = inflight + 1
    /\ fetchCalls' = fetchCalls + 1
    /\ pc' = "rap_inc"
    /\ UNCHANGED <<fetcherVars, registered, has_more_pages, delivered, failed,
                   cbVars, waitVars, histVars, op, result>>

\* self.requested_pages += 1; self.wait()
request_all_pages_inc ==
    /\ UNCHANGED <<isoVars, flatVars, fixVars, sizeVars, liveVars>>
    /\ pc = "rap_inc"
    /\ requested_pages' = requested_pages + 1
    /\ seconds' = DefaultSeconds
    /\ pc' = "wait_start"
    /\ UNCHANGED <<pages, error, retrieved_pages, sourceVars, cbVars, now,
                   expiry, histVars, op, result>>

\* ----------------------------------------------- PageFetcher.handle_page
\* handle_page_inc that counts the page as requested as well
handle_page_inc_requests(n, more) ==
    /\ UNCHANGED <<isoVars, flatVars, fixVars, sizeVars, liveVars>>
    /\ registered
    /\ inflight > 0
    /\ cb = "idle"
    /\ Len(delivered) < MaxPages
    /\ Len(delivered) = 0 \/ has_more_pages
    /\ inflight' = inflight - 1
    /\ delivered' = Append(delivered, NextRows(n))
    /\ has_more_pages' = (more /\ Len(delivered) + 1 < MaxPages)
    /\ opCb' = TRUE
    /\ late' = (late \/ (pc \in {"idle", "dead"} /\ result.kind = "raise"))
    /\ IF retrieved_pages = None
         THEN /\ cbRaised' = "TypeError"
              /\ UNCHANGED <<retrieved_pages, cb, cbRows, cbDone>>
         ELSE /\ retrieved_pages' = retrieved_pages + 1
              /\ cb' = "new"
              /\ cbRows' = NextRows(n)
              /\ cbDone' = 0
              /\ UNCHANGED cbRaised
    /\ requested_pages' = IF requested_pages = None THEN None
                                                     ELSE requested_pages + 1
    /\ UNCHANGED <<pages, error, registered, fetchCalls, failed, pc, op,
                   result, waitVars, pre, opErr>>

\* The source resolves one of its fetches with a page and calls
\* handle_page(rows); the first statement is self.retrieved_pages += 1, which
\* raises TypeError while retrieved_pages still is the class attribute None.
handle_page_inc(n, more) ==
    /\ UNCHANGED <<isoVars, flatVars, fixVars, sizeVars, liveVars>>
    /\ registered
    /\ inflight > 0
    /\ cb = "idle"
    /\ Len(delivered) < MaxPages
    /\ Len(delivered) = 0 \/ has_more_pages
    /\ inflight' = inflight - 1
    /\ delivered' = Append(delivered, NextRows(n))
    /\ has_more_pages' = (more /\ Len(delivered) + 1 < MaxPages)
    /\ opCb' = TRUE
    /\ late' = (late \/ (pc \in {"idle", "dead"} /\ result.kind = "raise"))
    /\ IF retrieved_pages = None
         THEN /\ cbRaised' = "TypeError"
              /\ UNCHANGED <<retrieved_pages, cb, cbRows, cbDone>>
         ELSE /\ retrieved_pages' = retrieved_pages + 1
              /\ cb' = "new"
              /\ cbRows' = NextRows(n)
              /\ cbDone' = 0
              /\ UNCHANGED cbRaised
    /\ UNCHANGED <<pages, error, requested_pages, registered, fetchCalls,
                   failed, pc, op, result, waitVars, pre, opErr>>

\* handle_page_append putting the new page in front of the others
handle_page_prepend ==
    /\ UNCHANGED <<isoVars, flatVars, fixVars, sizeVars, liveVars>>
    /\ cb = "new"
    /\ pages' = <<<<>>>> \o pages
    /\ cb' = IF cbRows = <<>> THEN "idle" ELSE "rows"
    /\ UNCHANGED <<error, requested_pages, retrieved_pages, sourceVars, pc, op,
                   result, waitVars, cbRows, cbDone, cbRaised, histVars>>

\* page = Page(); self.pages.append(page)
handle_page_append ==
    /\ UNCHANGED <<isoVars, flatVars, fixVars, sizeVars, liveVars>>
    /\ cb = "new"
    /\ pages' = Append(pages, <<>>)
    /\ cb' = IF cbRows = <<>> THEN "idle" ELSE "rows"
    /\ UNCHANGED <<error, requested_pages, retrieved_pages, sourceVars, pc, op,
                   result, waitVars, cbRows, cbDone, cbRaised, histVars>>

\* handle_page_add_row adding every row to the first page of pages
handle_page_add_row_first ==
    /\ UNCHANGED <<isoVars, flatVars, fixVars, sizeVars, liveVars>>
    /\ cb = "rows"
    /\ pages' = [pages EXCEPT ![1] = Append(@, cbRows[cbDone + 1])]
    /\ IF cbDone + 1 = Len(cbRows)
         THEN cb' = "idle" /\ cbRows' = <<>> /\ cbDone' = 0
         ELSE cb' = "rows" /\ cbDone' = cbDone + 1 /\ UNCHANGED cbRows
    /\ UNCHANGED <<error, requested_pages, retrieved_pages, sourceVars, pc, op,
                   result, waitVars, cbRaised, histVars>>

\* for row in rows: page.add_row(row); the callback's locals end with it
handle_page_add_row ==
    /\ UNCHANGED <<isoVars, flatVars, fixVars, sizeVars, liveVars>>
    /\ cb = "rows"
    /\ pages' = [pages EXCEPT ![Len(pages)] = Append(@, cbRows[cbDone + 1])]
    /\ IF cbDone + 1 = Len(cbRows)
         THEN cb' = "idle" /\ cbRows' = <<>> /\ cbDone' = 0
         ELSE cb' = "rows" /\ cbDone' = cbDone + 1 /\ UNCHANGED cbRows
    /\ UNCHANGED <<error, requested_pages, retrieved_pages, sourceVars, pc, op,
                   result, waitVars, cbRaised, histVars>>

\* ---------------------------------------------- PageFetcher.handle_error
\* handle_error that counts the failed fetch as a retrieved page
handle_error_counts(exc) ==
    /\ UNCHANGED <<isoVars, flatVars, fixVars, sizeVars, liveVars>>
    /\ registered
    /\ inflight > 0
    /\ cb = "idle"
    /\ inflight' = inflight - 1
    /\ failed' = Append(failed, exc)
    /\ error' = exc
    /\ cbRaised' = exc
    /\ retrieved_pages' = IF retrieved_pages = None THEN None
                                                   ELSE retrieved_pages + 1
    /\ opCb' = TRUE
    /\ opErr' = (opErr \/ pc \in RequestOut)
    /\ late' = late
    /\ UNCHANGED <<pages, requested_pages, registered, has_more_pages,
                   fetchCalls, delivered, pc, op, result, waitVars, cb, cbRows,
                   cbDone, pre>>

\* handle_error that stores exc and does not raise it
handle_error_swallow(exc) ==
    /\ UNCHANGED <<isoVars, flatVars, fixVars, sizeVars, liveVars>>
    /\ registered
    /\ inflight > 0
    /\ cb = "idle"
    /\ inflight' = inflight - 1
    /\ failed' = Append(failed, exc)
    /\ error' = exc
    /\ opCb' = TRUE
    /\ opErr' = (opErr \/ pc \in RequestOut)
    /\ late' = late
    /\ UNCHANGED <<pages, requested_pages, retrieved_pages, registered,
                   has_more_pages, fetchCalls, delivered, pc, op, result,
                   waitVars, cb, cbRows, cbDone, cbRaised, pre>>

\* The source resolves one of its fetches with a failure and calls
\* handle_error(exc): self.error = exc; raise exc
handle_error(exc) ==
    /\ UNCHANGED <<isoVars, flatVars, fixVars, sizeVars, liveVars>>
    /\ registered
    /\ inflight > 0
    /\ cb = "idle"
    /\ inflight' = inflight - 1
    /\ failed' = Append(failed, exc)
    /\ error' = exc
    /\ cbRaised' = exc
    /\ opCb' = TRUE
    /\ opErr' = (opErr \/ pc \in RequestOut)
    /\ late' = late
    /\ UNCHANGED <<pages, requested_pages, retrieved_pages, registered,
                   has_more_pages, fetchCalls, delivered, pc, op, result,
                   waitVars, cb, cbRows, cbDone, pre>>

\* ================================= several fetchers over distinct sources
\* test_query_isolation: one caller holds several PageFetchers, each wrapping
\* its own future, and runs one operation at a time on any of them, while
\* every source hands over its pages whenever it likes. List objects live in
\* heap and attributes hold references to them, so that two fetchers sharing
\* one list would show. A callback is one step here.
Fetchers == {"f1", "f2"}
NoFetcher == "none"
IsoMaxPages == 2        \* pages one source holds at most
IsoPageSizes == 0..1

\* The class attributes a new PageFetcher starts from.
NewFetcher == [pages |-> None, error |-> NoError,
               requested_pages |-> None, retrieved_pages |-> None]

\* A future that has begun its first fetch and has no callbacks yet.
NewFuture == [registered |-> FALSE, has_more_pages |-> FALSE, inflight |-> 1,
              delivered |-> <<>>]

IsoStart ==
    /\ heap = <<>>
    /\ inst = [f \in Fetchers |-> NewFetcher]
    /\ isrc = [f \in Fetchers |-> NewFuture]
    /\ ipc = [f \in Fetchers |-> "new"]
    /\ actor = NoFetcher

\* The next n rows of the result set of f's query: <<f, k>> is its k-th row.
IsoRows(f, n) == [j \in 1..n |-> <<f, Len(Concat(isrc[f].delivered)) + j>>]

\* The caller is one thread: it is inside at most one operation.
CallerFree == \A g \in Fetchers : ipc[g] \in {"new", "idle", "dead"}
IsoWaits == {"wait_init", "wait_rp", "wait_rap"}

\* __init__ with pages left to a list made once for the class
iso_init_shared(f) ==
    /\ UNCHANGED <<pagingVars, flatVars, fixVars, sizeVars, liveVars>>
    /\ ipc[f] = "new"
    /\ CallerFree
    /\ heap' = IF heap = <<>> THEN <<<<>>>> ELSE heap
    /\ inst' = [inst EXCEPT ![f].pages = 1]
    /\ isrc' = [isrc EXCEPT ![f].registered = TRUE]
    /\ ipc' = [ipc EXCEPT ![f] = "registered"]
    /\ actor' = f

\* self.pages = []; self.future = future; self.future.add_callbacks(...)
iso_init(f) ==
    /\ UNCHANGED <<pagingVars, flatVars, fixVars, sizeVars, liveVars>>
    /\ ipc[f] = "new"
    /\ CallerFree
    /\ heap' = Append(heap, <<>>)
    /\ inst' = [inst EXCEPT ![f].pages = Len(heap) + 1]
    /\ isrc' = [isrc EXCEPT ![f].registered = TRUE]
    /\ ipc' = [ipc EXCEPT ![f] = "registered"]
    /\ actor' = f

\* self.requested_pages = 1; self.retrieved_pages = 0; self.wait(seconds=30)
iso_init_counters(f) ==
    /\ UNCHANGED <<pagingVars, flatVars, fixVars, sizeVars, liveVars>>
    /\ ipc[f] = "registered"
    /\ inst' = [inst EXCEPT ![f].requested_pages = 1, ![f].retrieved_pages = 0]
    /\ ipc' = [ipc EXCEPT ![f] = "wait_init"]
    /\ actor' = f
    /\ UNCHANGED <<heap, isrc>>

\* wait sees requested_pages == retrieved_pages and returns
iso_wait_return(f) ==
    /\ UNCHANGED <<pagingVars, flatVars, fixVars, sizeVars, liveVars>>
    /\ ipc[f] \in IsoWaits
    /\ inst[f].requested_pages = inst[f].retrieved_pages
    /\ ipc' = [ipc EXCEPT ![f] = IF @ = "wait_rap" THEN "rap_loop" ELSE "idle"]
    /\ actor' = f
    /\ UNCHANGED <<heap, inst, isrc>>

\* wait's bound elapses (time is not counted here: it may elapse at any
\* moment of the wait): raise RuntimeError
iso_wait_raise(f) ==
    /\ UNCHANGED <<pagingVars, flatVars, fixVars, sizeVars, liveVars>>
    /\ ipc[f] \in IsoWaits
    /\ ipc' = [ipc EXCEPT ![f] = IF @ = "wait_init" THEN "dead" ELSE "idle"]
    /\ actor' = f
    /\ UNCHANGED <<heap, inst, isrc>>

\* request_page up to its wait
iso_request_page(f) ==
    /\ UNCHANGED <<pagingVars, flatVars, fixVars, sizeVars, liveVars>>
    /\ ipc[f] = "idle"
    /\ CallerFree
    /\ inst[f].requested_pages <= IsoMaxPages
    /\ IF isrc[f].has_more_pages
         THEN /\ isrc' = [isrc EXCEPT ![f].inflight = @ + 1]
              /\ inst' = [inst EXCEPT ![f].requested_pages = @ + 1]
              /\ ipc' = [ipc EXCEPT ![f] = "wait_rp"]
         ELSE UNCHANGED <<isrc, inst, ipc>>
    /\ actor' = f
    /\ UNCHANGED heap

\* request_all_pages: the loop test and, if it holds, the body up to wait
iso_request_all_pages(f) ==
    /\ UNCHANGED <<pagingVars, flatVars, fixVars, sizeVars, liveVars>>
    /\ \/ ipc[f] = "idle" /\ CallerFree /\ inst[f].requested_pages <= IsoMaxPages
       \/ ipc[f] = "rap_loop"
    /\ IF isrc[f].has_more_pages
         THEN /\ isrc' = [isrc EXCEPT ![f].inflight = @ + 1]
              /\ inst' = [inst EXCEPT ![f].requested_pages = @ + 1]
              /\ ipc' = [ipc EXCEPT ![f] = "wait_rap"]
         ELSE /\ ipc' = [ipc EXCEPT ![f] = "idle"]
              /\ UNCHANGED <<isrc, inst>>
    /\ actor' = f
    /\ UNCHANGED heap

\* f's source hands over a page: handle_page(rows), all of it
iso_handle_page(f, n, more) ==
    /\ UNCHANGED <<pagingVars, flatVars, fixVars, sizeVars, liveVars>>
    /\ isrc[f].registered
    /\ isrc[f].inflight > 0
    /\ Len(isrc[f].delivered) < IsoMaxPages
    /\ isrc[f].delivered = <<>> \/ isrc[f].has_more_pages
    /\ isrc' = [isrc EXCEPT
                  ![f].inflight = @ - 1,
                  ![f].delivered = Append(@, IsoRows(f, n)),
                  ![f].has_more_pages =
                      (more /\ Len(isrc[f].delivered) + 1 < IsoMaxPages)]
    /\ IF inst[f].retrieved_pages = None
         THEN UNCHANGED <<inst, heap>>
         ELSE /\ inst' = [inst EXCEPT ![f].retrieved_pages = @ + 1]
              /\ heap' = [Append(heap, IsoRows(f, n)) EXCEPT
                            ![inst[f].pages] = Append(@, Len(heap) + 1)]
    /\ actor' = f
    /\ UNCHANGED ipc

\* f's source reports a failure: handle_error(exc)
iso_handle_error(f, exc) ==
    /\ UNCHANGED <<pagingVars, flatVars, fixVars, sizeVars, liveVars>>
    /\ isrc[f].registered
    /\ isrc[f].inflight > 0
    /\ isrc' = [isrc EXCEPT ![f].inflight = @ - 1]
    /\ inst' = [inst EXCEPT ![f].error = exc]
    /\ actor' = f
    /\ UNCHANGED <<heap, ipc>>

\* What the accessors of f show: its pages' rows, its counters, its error.
IsoView(f) ==
    [pages |-> IF inst[f].pages = None THEN <<>>
               ELSE [k \in 1..Len(heap[inst[f].pages]) |->
                        heap[heap[inst[f].pages][k]]],
     requested_pages |-> inst[f].requested_pages,
     retrieved_pages |-> inst[f].retrieved_pages,
     error |-> inst[f].error]

IsoNext ==
    \/ \E f \in Fetchers : iso_init(f)
    \/ \E f \in Fetchers : iso_init_counters(f)
    \/ \E f \in Fetchers : iso_wait_return(f)
    \/ \E f \in Fetchers : iso_wait_raise(f)
    \/ \E f \in Fetchers : iso_request_page(f)
    \/ \E f \in Fetchers : iso_request_all_pages(f)
    \/ \E f \in Fetchers, n \in IsoPageSizes, more \in BOOLEAN :
          iso_handle_page(f, n, more)
    \/ \E f \in Fetchers, exc \in Excs : iso_handle_error(f, exc)

\* ================================================== row-set helpers
\* datahelp.flatten / flatten_into_set and PageAssertionMixin.assertIsSubsetOf.
\* A string is a tuple of one-character strings. A row-record is a dict: the
\* tuple of its <<key, value>> items in the order the dict iterates them,
\* with distinct keys. A value is an integer or a text.
MaxRecs == 2        \* rows of one sequence at most
MaxBoth == 3        \* rows of the two compared sequences together at most

Sep == <<"_", "_">>
Chars == {"0", "1", "2", "3", "4", "5", "6", "7", "8", "9", "_", "d", "i", "v"}
Digit == <<"0", "1", "2", "3", "4", "5", "6", "7", "8", "9">>

\* ord(c): the code point that str comparison goes by
Ord(c) ==
    CASE c \in {Digit[k] : k \in 1..10} ->
            47 + (CHOOSE k \in 1..10 : Digit[k] = c)
      [] c = "_" -> 95
      [] c = "d" -> 100
      [] c = "i" -> 105
      [] c = "v" -> 118

\* s < t on str: the first differing character decides, a proper prefix is
\* smaller
StrLess(s, t) ==
    \E i \in 1..(Len(t)) :
        /\ i <= Len(s) + 1
        /\ \A j \in 1..(i - 1) : s[j] = t[j]
        /\ i = Len(s) + 1 \/ Ord(s[i]) < Ord(t[i])

IntV(n) == [type |-> "int", n |-> n, s |-> <<>>]
TextV(s) == [type |-> "text", n |-> 0, s |-> s]

\* str(n) of a non-negative int: its decimal digits
RECURSIVE IntStr(_)
IntStr(n) ==
    IF n < 10 THEN <<Digit[n + 1]>>
    ELSE IntStr(n \div 10) \o <<Digit[(n % 10) + 1]>>

\* what '{}'.format(v) renders
Str(v) == IF v.type = "int" THEN IntStr(v.n) ELSE v.s

Keys == {<<"i", "d">>, <<"v">>}
Vals == {IntV(1), TextV(<<"1">>)}

Dicts ==
    {d \in UNION {[1..n -> Keys \X Vals] : n \in 0..Cardinality(Keys)} :
        \A i, j \in DOMAIN d : i # j => d[i][1] # d[j][1]}

RowSeqs(n) == UNION {[1..k -> Dicts] : k \in 0..n}

\* iterating a dict yields its keys
DictKeys(d) == [i \in DOMAIN d |-> d[i][1]]
\* _dict[k]
DictGet(d, k) == d[CHOOSE i \in DOMAIN d : d[i][1] = k][2]

\* sorted(keys): insertion into an ascending list, one key after the other
RECURSIVE InsertKey(_, _)
InsertKey(k, sorted) ==
    IF sorted = <<>> THEN <<k>>
    ELSE IF StrLess(k, Head(sorted)) THEN <<k>> \o sorted
         ELSE <<Head(sorted)>> \o InsertKey(k, Tail(sorted))

RECURSIVE SortedKeys(_)
SortedKeys(ks) ==
    IF ks = <<>> THEN <<>> ELSE InsertKey(Head(ks), SortedKeys(Tail(ks)))

\* '{}__{}'.format(k, v)
Format(k, v) == k \o Sep \o Str(v)

\* sep.join(items)
RECURSIVE Join(_, _)
Join(sep, items) ==
    IF items = <<>> THEN <<>>
    ELSE IF Len(items) = 1 THEN items[1]
         ELSE items[1] \o sep \o Join(sep, Tail(items))

\* flatten with the keys taken as the dict iterates them
flatten_unsorted(list_of_dicts) ==
    [r \in DOMAIN list_of_dicts |->
        LET _dict == list_of_dicts[r]
            sorted_keys == DictKeys(_dict)
            items == [j \in DOMAIN sorted_keys |->
                         Format(sorted_keys[j], DictGet(_dict, sorted_keys[j]))]
        IN Join(Sep, items)]

flatten(list_of_dicts) ==
    [r \in DOMAIN list_of_dicts |->
        LET _dict == list_of_dicts[r]
            sorted_keys == SortedKeys(DictKeys(_dict))
            items == [j \in DOMAIN sorted_keys |->
                         Format(sorted_keys[j], DictGet(_dict, sorted_keys[j]))]
        IN Join(Sep, items)]

\* flatten_into_set keeping the first string only
flatten_into_set_first(iterable) ==
    IF iterable = <<>> THEN {} ELSE {flatten(iterable)[1]}

\* set(flatten(iterable))
flatten_into_set(iterable) ==
    {flatten(iterable)[r] : r \in DOMAIN iterable}

\* the subset check counting occurrences
assertIsSubsetOf_counted(subset, superset) ==
    LET a == flatten(subset)
        b == flatten(superset)
    IN \A x \in flatten_into_set(subset) :
          Cardinality({r \in DOMAIN a : a[r] = x})
              <= Cardinality({r \in DOMAIN b : b[r] = x})

\* assert flatten_into_set(subset).issubset(flatten_into_set(superset))
assertIsSubsetOf(subset, superset) ==
    flatten_into_set(subset) \subseteq flatten_into_set(superset)

\* d1 == d2 on dicts: the same keys with equal values, whatever the order
PyDictEq(d1, d2) == {d1[i] : i \in DOMAIN d1} = {d2[i] : i \in DOMAIN d2}

\* how many elements of seq compare equal to x
CountEq(seq, x) == Cardinality({i \in DOMAIN seq : PyDictEq(seq[i], x)})

\* unittest's assertItemsEqual on lists of dicts (unhashable elements): every
\* element occurs equally often in both lists
assertItemsEqual(actual_seq, expected_seq) ==
    /\ \A i \in DOMAIN actual_seq :
          CountEq(actual_seq, actual_seq[i]) = CountEq(expected_seq, actual_seq[i])
    /\ \A j \in DOMAIN expected_seq :
          CountEq(actual_seq, expected_seq[j]) = CountEq(expected_seq, expected_seq[j])

\* the equality check comparing the two lists as sets of records
assertEqualIgnoreOrder_set(actual, expected) ==
    /\ \A i \in DOMAIN actual : CountEq(expected, actual[i]) > 0
    /\ \A j \in DOMAIN expected : CountEq(actual, expected[j]) > 0

\* return self.assertItemsEqual(actual, expected)
assertEqualIgnoreOrder(actual, expected) == assertItemsEqual(actual, expected)

FlatIdle ==
    /\ rowsA = <<>>
    /\ rowsB = <<>>
    /\ shuffled = FALSE
    /\ fpc = "idle"
    /\ flatA = <<>>
    /\ flatB = <<>>
    /\ setA = {}
    /\ setB = {}
    /\ verdict = ""
    /\ verdictEq = ""

\* Two row sequences a test compares.
FlatInputs ==
    /\ rowsA \in RowSeqs(MaxRecs)
    /\ rowsB \in RowSeqs(IF MaxBoth - Len(rowsA) < MaxRecs
                           THEN MaxBoth - Len(rowsA) ELSE MaxRecs)
    /\ shuffled = FALSE
    /\ fpc = "idle"
    /\ flatA = <<>>
    /\ flatB = <<>>
    /\ setA = {}
    /\ setB = {}
    /\ verdict = ""
    /\ verdictEq = ""

Perms(n) == {p \in [1..n -> 1..n] : \A i, j \in 1..n : i # j => p[i] # p[j]}

\* The second sequence is the first one's rows in another order.
shuffle ==
    /\ UNCHANGED <<pagingVars, isoVars, fixVars, sizeVars, liveVars>>
    /\ fpc = "idle"
    /\ rowsB = <<>>
    /\ \E p \in Perms(Len(rowsA)) :
          rowsB' = [i \in 1..Len(rowsA) |-> rowsA[p[i]]]
    /\ shuffled' = TRUE
    /\ fpc' = "ready"
    /\ UNCHANGED <<rowsA, flatA, flatB, setA, setB, verdict, verdictEq>>

call_flatten ==
    /\ UNCHANGED <<pagingVars, isoVars, fixVars, sizeVars, liveVars>>
    /\ fpc \in {"idle", "ready"}
    /\ flatA' = flatten(rowsA)
    /\ flatB' = flatten(rowsB)
    /\ fpc' = "flattened"
    /\ UNCHANGED <<rowsA, rowsB, shuffled, setA, setB, verdict, verdictEq>>

call_flatten_into_set ==
    /\ UNCHANGED <<pagingVars, isoVars, fixVars, sizeVars, liveVars>>
    /\ fpc = "flattened"
    /\ setA' = flatten_into_set(rowsA)
    /\ setB' = flatten_into_set(rowsB)
    /\ fpc' = "sets"
    /\ UNCHANGED <<rowsA, rowsB, shuffled, flatA, flatB, verdict, verdictEq>>

\* self.assertIsSubsetOf(rowsA, rowsB): returns, or the assert raises
call_assertIsSubsetOf ==
    /\ UNCHANGED <<pagingVars, isoVars, fixVars, sizeVars, liveVars>>
    /\ fpc = "sets"
    /\ verdict' = IF assertIsSubsetOf(rowsA, rowsB) THEN "pass"
                  ELSE "AssertionError"
    /\ fpc' = "done"
    /\ UNCHANGED <<rowsA, rowsB, shuffled, flatA, flatB, setA, setB, verdictEq>>

\* self.assertEqualIgnoreOrder(rowsA, rowsB): returns, or the check fails
call_assertEqualIgnoreOrder ==
    /\ UNCHANGED <<pagingVars, isoVars, fixVars, sizeVars, liveVars>>
    /\ fpc = "done"
    /\ verdictEq' = IF assertEqualIgnoreOrder(rowsA, rowsB) THEN "pass"
                    ELSE "AssertionError"
    /\ fpc' = "compared"
    /\ UNCHANGED <<rowsA, rowsB, shuffled, flatA, flatB, setA, setB, verdict>>

FlatNext ==
    \/ shuffle
    \/ call_flatten
    \/ call_flatten_into_set
    \/ call_assertIsSubsetOf
    \/ call_assertEqualIgnoreOrder

\* ===================================================== row fixtures
\* datahelp.parse_data_into_dicts and what it calls. The text of a fixture
\* is a string (a tuple of characters) written the way the tests write it:
\* a blank first line, an indented header line, one indented line per data
\* row with its cells padded by spaces, a last line of spaces.
MaxLines == 2       \* data rows of one fixture at most
MaxMult == 2        \* the largest multiplier N of a *N prefix

NL == "\n"
Whitespace == {" ", NL}
Headers == <<<<"i", "d">>, <<"v">>>>
FirstCells == {<<"1">>, <<"a", "*", "2">>}
OtherCells == {<<"x">>}

\* A declared data row: its *N prefix (None when it has none) and its cells.
FixtureRows ==
    [mult : {None} \cup 0..MaxMult, cells : {<<a, b>> : a \in FirstCells, b \in OtherCells}]

Pad(cell) == <<" ">> \o cell \o <<" ">>

RenderRow(r) ==
    <<" ", " ">>
    \o (IF r.mult = None THEN <<>> ELSE <<"*">> \o IntStr(r.mult))
    \o <<"|">> \o Join(<<"|">>, [j \in DOMAIN r.cells |-> Pad(r.cells[j])])
    \o <<"|">>

RenderData(rows) ==
    <<NL, " ", " ", "|">> \o Join(<<"|">>, [j \in DOMAIN Headers |-> Pad(Headers[j])])
    \o <<"|", NL>>
    \o Join(<<NL>>, [j \in DOMAIN rows |-> RenderRow(rows[j])])
    \o <<NL, " ", " ">>

\* str.split(sep) for a one-character sep
RECURSIVE Split(_, _)
Split(str, sep) ==
    IF \A k \in DOMAIN str : str[k] # sep THEN <<str>>
    ELSE LET k == CHOOSE k \in DOMAIN str :
                     str[k] = sep /\ \A j \in 1..(k - 1) : str[j] # sep
         IN <<SubSeq(str, 1, k - 1)>> \o Split(SubSeq(str, k + 1, Len(str)), sep)

\* str.strip(chars): drop the leading and the trailing characters in chars
RECURSIVE StripChars(_, _)
StripChars(str, chars) ==
    IF str = <<>> THEN <<>>
    ELSE IF str[1] \in chars THEN StripChars(Tail(str), chars)
    ELSE IF str[Len(str)] \in chars
         THEN StripChars(SubSeq(str, 1, Len(str) - 1), chars)
         ELSE str

\* return val.strip().strip('|')
strip(val) == StripChars(StripChars(val, Whitespace), {"|"})

\* filter(None, map(strip, data.split('\n')))
Lines(data) ==
    LET rows == Split(data, NL)
    IN SelectSeq([j \in DOMAIN rows |-> strip(rows[j])], LAMBDA r : r # <<>>)

\* [l.strip() for l in row.split('|')]
Cells(row) ==
    LET ls == Split(row, "|")
    IN [j \in DOMAIN ls |-> StripChars(ls[j], Whitespace)]

\* rows = filter(None, map(strip, ...)); [unicode(h.strip()) for h in
\* rows.pop(0).split('|')]
parse_headers_into_list(data) == Cells(Lines(data)[1])

IsDigits(str) == str # <<>> /\ \A k \in DOMAIN str : \E d \in 1..10 : Digit[d] = str[k]

\* int(str) of a string of decimal digits
RECURSIVE ParseInt(_)
ParseInt(str) ==
    IF str = <<>> THEN 0
    ELSE 10 * ParseInt(SubSeq(str, 1, Len(str) - 1))
         + ((CHOOSE d \in 1..10 : Digit[d] = str[Len(str)]) - 1)

\* re.findall('\*(\d+)$', cell): the digits after a '*' that run to the end
\* of the cell, wherever in the cell that '*' stands
FindMultiplier(cell) ==
    {SubSeq(cell, k + 1, Len(cell)) :
        k \in {k \in DOMAIN cell :
                  cell[k] = "*" /\ IsDigits(SubSeq(cell, k + 1, Len(cell)))}}

\* m = re.findall(...); if m: return int(m[0]); return None
get_row_multiplier(row) ==
    LET m == FindMultiplier(Cells(row)[1])
    IN IF m # {} THEN ParseInt(CHOOSE g \in m : TRUE) ELSE None

row_has_multiplier(row) == get_row_multiplier(row) # None

\* What parse_row_into_dict returns: a dict (its items in header order, each
\* value with the mark of the format function that made it) or a list; and
\* the calls of format functions made on the way.
DictResult(items, calls) ==
    [kind |-> "dict", items |-> items, elems |-> <<>>, calls |-> calls]
ListResult(elems, calls) ==
    [kind |-> "list", items |-> <<>>, elems |-> elems, calls |-> calls]

Min(a, b) == IF a < b THEN a ELSE b

\* row_map = dict(zip(headers, row_cells)), then func(value) for each column
\* that format_funcs has a function for
RowMap(row_cells, headers, funcs) ==
    LET cols == 1..Min(Len(headers), Len(row_cells))
        items == [j \in cols |->
                    <<headers[j], [raw |-> row_cells[j],
                                   formatted |-> headers[j] \in funcs]>>]
    IN DictResult(items, Cardinality({j \in cols : headers[j] \in funcs}))

RECURSIVE parse_row_into_dict(_, _, _)
parse_row_into_dict(row, headers, funcs) ==
    LET row_cells == Cells(row)
    IN IF row_has_multiplier(row)
         THEN LET row_multiplier == get_row_multiplier(row)
                  rest == Join(<<"|">>, Tail(row_cells))
                  copy == parse_row_into_dict(rest, headers, funcs)
              IN ListResult([i \in 1..row_multiplier |-> copy],
                            row_multiplier * copy.calls)
         ELSE RowMap(row_cells, headers, funcs)

\* the loop of parse_data_into_dicts over rows[from..]: extend or append
RECURSIVE ParseRows(_, _, _, _)
ParseRows(rows, from, headers, funcs) ==
    IF from > Len(rows) THEN [values |-> <<>>, calls |-> 0]
    ELSE LET got == parse_row_into_dict(rows[from], headers, funcs)
             more == ParseRows(rows, from + 1, headers, funcs)
         IN [values |-> (IF row_has_multiplier(rows[from]) THEN got.elems
                         ELSE <<got>>) \o more.values,
             calls |-> got.calls + more.calls]

\* rows.pop(0) is the header line; the loop runs over the lines after it
parse_data_into_dicts(data, funcs) ==
    LET rows == Lines(data)
    IN ParseRows(rows, 2, parse_headers_into_list(rows[1]), funcs)

NotParsed == [values |-> <<>>, calls |-> 0]

FixIdle ==
    /\ fixture = <<>>
    /\ format_funcs = {}
    /\ xpc = "idle"
    /\ parsed = NotParsed

\* A fixture a test declares, and the format functions it passes.
FixInputs ==
    /\ fixture \in UNION {[1..k -> FixtureRows] : k \in 0..MaxLines}
    /\ format_funcs \in SUBSET {Headers[j] : j \in DOMAIN Headers}
    /\ xpc = "idle"
    /\ parsed = NotParsed

call_parse_data_into_dicts ==
    /\ UNCHANGED <<pagingVars, isoVars, flatVars, sizeVars, liveVars>>
    /\ xpc = "idle"
    /\ parsed' = parse_data_into_dicts(RenderData(fixture), format_funcs)
    /\ xpc' = "parsed"
    /\ UNCHANGED <<fixture, format_funcs>>

FixNext == call_parse_data_into_dicts

\* ============================================ a statement's fetch size
\* test_page_size_change: the test assigns stmt.fetch_size between its calls,
\* and the source answers each fetch with as many rows as the fetch size was
\* when that fetch began, or with the rows that remain if they are fewer.
FetchSizes == 1..MaxRows
TotalRows == MaxPages       \* rows the query selects

SizeIdle == fetch_size = [k \in 1..(MaxFetches + 1) |-> MaxRows]

\* stmt = SimpleStatement(..., fetch_size=s); future = execute_async(stmt)
SizeInputs == \E s \in FetchSizes : fetch_size = [k \in 1..(MaxFetches + 1) |-> s]

\* stmt.fetch_size = s, between two calls on the fetcher: the fetches that
\* have begun keep the size they began with
set_fetch_size(s) ==
    /\ UNCHANGED <<pagingVars, isoVars, flatVars, fixVars, liveVars>>
    /\ pc = "idle"
    /\ fetchCalls < MaxFetches
    /\ fetch_size[MaxFetches + 1] # s
    /\ fetch_size' = [k \in 1..(MaxFetches + 1) |->
                         IF k > 1 + fetchCalls THEN s ELSE fetch_size[k]]

\* The rows the query has left after the pages delivered so far.
Remaining == TotalRows - Len(Concat(delivered))

\* The source answers its next fetch: handle_page(rows) with the rows of
\* that fetch
handle_page_sized ==
    /\ Len(delivered) < MaxPages
    /\ handle_page_inc(Min(fetch_size[Len(delivered) + 1], Remaining),
                       Remaining > fetch_size[Len(delivered) + 1])

SizeNext ==
    \/ init_register
    \/ init_requested
    \/ init_retrieved
    \/ wait_start
    \/ wait_poll
    \/ wait_raise
    \/ Tick
    \/ request_page_call
    \/ request_page_check
    \/ request_page_fetch
    \/ request_page_inc
    \/ request_all_pages_call
    \/ request_all_pages_check
    \/ request_all_pages_fetch
    \/ request_all_pages_inc
    \/ \E s \in FetchSizes : set_fetch_size(s)
    \/ handle_page_sized
    \/ handle_page_append
    \/ handle_page_add_row
    \/ \E exc \in Excs : handle_error(exc)

\* ==================================== the caller's progress and the clock
\* The behaviours in which the caller's thread and the callbacks' thread keep
\* running and the clock keeps moving. A prompt source answers every fetch
\* with a page before the wait for it runs out, and wait's loop, which does
\* nothing but poll, polls more often than the clock moves.
Unprompted == prompt = FALSE

\* time passes during a wait; a prompt source lets a wait run out only when
\* it has no fetch left to answer
tick ==
    /\ prompt => (/\ requested_pages # retrieved_pages
                  /\ now + 1 < expiry \/ inflight = 0)
    /\ Tick

\* the source reports a failure, which a prompt source never does
source_fails(exc) ==
    /\ ~prompt
    /\ handle_error(exc)

CallerStep ==
    \/ init_register
    \/ init_requested
    \/ init_retrieved
    \/ wait_start
    \/ wait_poll
    \/ wait_raise
    \/ request_all_pages_check
    \/ request_all_pages_fetch
    \/ request_all_pages_inc

CallbackStep ==
    \/ handle_page_append
    \/ handle_page_add_row

\* The pages of these behaviours are empty or full: whether the callback's
\* loop over the rows runs at all is what the caller's progress can depend on.
EmptyOrFull == {0, MaxRows}

Delivery == \E n \in EmptyOrFull, more \in BOOLEAN : handle_page_inc(n, more)

LiveNext ==
    \/ init_register
    \/ init_requested
    \/ init_retrieved
    \/ wait_start
    \/ wait_poll
    \/ wait_raise
    \/ tick
    \/ request_all_pages_call
    \/ request_all_pages_check
    \/ request_all_pages_fetch
    \/ request_all_pages_inc
    \/ \E n \in EmptyOrFull, more \in BOOLEAN : handle_page_inc(n, more)
    \/ handle_page_append
    \/ handle_page_add_row
    \/ \E exc \in Excs : source_fails(exc)

\* ========================================================= specifications
Init == PagingInit /\ IsoStart /\ FlatIdle /\ FixIdle /\ SizeIdle /\ Unprompted

Next ==
    \/ init_register
    \/ init_requested
    \/ init_retrieved
    \/ wait_start
    \/ wait_poll
    \/ wait_raise
    \/ Tick
    \/ \E s \in WaitArgs : wait_call(s)
    \/ request_page_call
    \/ request_page_check
    \/ request_page_fetch
    \/ request_page_inc
    \/ request_all_pages_call
    \/ request_all_pages_check
    \/ request_all_pages_fetch
    \/ request_all_pages_inc
    \/ \E n \in PageSizes, more \in BOOLEAN : handle_page_inc(n, more)
    \/ handle_page_append
    \/ handle_page_add_row
    \/ \E exc \in Excs : handle_error(exc)

Spec == Init /\ [][Next]_vars

IsoInit == PagingInit /\ IsoStart /\ FlatIdle /\ FixIdle /\ SizeIdle /\ Unprompted
IsoSpec == IsoInit /\ [][IsoNext]_vars

FlatInit == PagingInit /\ IsoStart /\ FlatInputs /\ FixIdle /\ SizeIdle /\ Unprompted
FlatSpec == FlatInit /\ [][FlatNext]_vars

FixInit == PagingInit /\ IsoStart /\ FlatIdle /\ FixInputs /\ SizeIdle /\ Unprompted
FixSpec == FixInit /\ [][FixNext]_vars

SizeInit == PagingInit /\ IsoStart /\ FlatIdle /\ FixIdle /\ SizeInputs
                /\ Unprompted
SizeSpec == SizeInit /\ [][SizeNext]_vars

LiveInit == PagingInit /\ IsoStart /\ FlatIdle /\ FixIdle /\ SizeIdle
                /\ prompt \in BOOLEAN
LiveSpec ==
    /\ LiveInit
    /\ [][LiveNext]_vars
    /\ WF_vars(CallerStep)
    /\ WF_vars(tick)
    /\ WF_vars(CallbackStep)
    /\ WF_vars(prompt /\ Delivery)

TypeOK ==
    /\ pc \in {"init", "init_requested", "init_retrieved", "wait_start",
               "wait_loop", "idle", "dead", "rp_check", "rp_fetch", "rp_inc",
               "rap_check", "rap_fetch", "rap_inc"}
    /\ op \in {"construct", "request_page", "request_all_pages", "wait"}
    /\ requested_pages \in {None} \cup Nat
    /\ retrieved_pages \in {None} \cup Nat
    /\ error \in Excs \cup {NoError}
    /\ cb \in {"idle", "new", "rows"}
    /\ inflight \in Nat
    /\ Len(delivered) <= MaxPages

\* ================================================================ claims
\* The fetcher exists for its caller once __init__ has returned normally.
Constructed == op # "construct" \/ pc = "idle"

\* Fetches the source has begun whose page it has not delivered; a failed
\* fetch stays outstanding.
Outstanding == (1 + fetchCalls) - Len(delivered)

\* The operation the caller ran last is over.
Over == pc \in {"idle", "dead"} /\ result.kind # "none"

\* The running (or last) request_page / request_all_pages called
\* start_fetching_next_page.
Fetched == fetchCalls > pre.fetches

\* C1: in every state of a constructed fetcher, the steps between
\* start_fetching_next_page and the increment of requested_pages included,
\* retrieved_pages <= requested_pages, and the two are equal exactly when no
\* fetch is outstanding.
C1_CountersInvariant ==
    Constructed =>
        /\ retrieved_pages <= requested_pages
        /\ (retrieved_pages = requested_pages) <=> (Outstanding = 0)

\* C2: __init__ registers the callbacks and sets requested_pages = 1 and
\* retrieved_pages = 0 before it waits, and when it has returned normally
\* exactly one page was retrieved without any request: both counters are 1
\* and retrieved_pagecount() is 1.
C2_ConstructReturns ==
    /\ (op = "construct" /\ pc \in InWait) =>
          registered /\ requested_pages = 1 /\ retrieved_pages \in {0, 1}
    /\ (op = "construct" /\ pc = "idle") =>
          /\ result = Returned
          /\ fetchCalls = 0
          /\ requested_pages = 1
          /\ retrieved_pages = 1
          /\ retrieved_pagecount = 1

\* C3: a request_page() that found has_more_pages true calls
\* start_fetching_next_page once and adds 1 to requested_pages, and at the
\* step at which it returns normally retrieved_pages and retrieved_pagecount()
\* are each 1 more than when it was called and the counters are equal.
C3_RequestPageReturns ==
    [][(op = "request_page" /\ pc = "wait_loop" /\ pc' = "idle"
            /\ result'.kind = "return") =>
          /\ fetchCalls' = pre.fetches + 1
          /\ requested_pages' = pre.requested + 1
          /\ retrieved_pages' = pre.retrieved + 1
          /\ Len(pages') = pre.pagecount + 1
          /\ requested_pages' = retrieved_pages']_vars

\* C4: when the request_all_pages() that follows construction returns
\* normally, the source is exhausted, retrieved_pagecount() is the number of
\* pages the source delivered and num_results_all_pages() lists their sizes
\* in delivery order.
C4_AllPagesReturns ==
    [][(op = "request_all_pages" /\ pre.fetches = 0 /\ pc = "rap_check"
            /\ pc' = "idle") =>
          /\ result' = Returned
          /\ ~has_more_pages'
          /\ Len(pages') = Len(delivered')
          /\ [i \in 1..Len(pages') |-> Len(pages'[i])]
               = [i \in 1..Len(delivered') |-> Len(delivered'[i])]]_vars

\* C5: with the source exhausted, every step the caller takes in
\* request_page() or request_all_pages() leaves pages, the counters and the
\* error alone, starts no fetch and enters no wait: the call returns at once.
C5_ExhaustedNoOp ==
    [][/\ (pc = "idle" /\ pc' \in {"rp_check", "rap_check"}) =>
             UNCHANGED <<fetcherVars, fetchCalls, inflight>>
       /\ (~has_more_pages /\ pc \in {"rp_check", "rap_check"} /\ pc' # pc) =>
             /\ pc' = "idle"
             /\ result' = Returned
             /\ UNCHANGED <<fetcherVars, fetchCalls, inflight>>]_vars

C5_Witness ==
    /\ op \in {"request_page", "request_all_pages"}
    /\ pc = "idle"
    /\ result = Returned
    /\ ~pre.more
    /\ ~Fetched
    /\ Len(pages) >= 2

\* C6: an operation that has a page requested (the first page for __init__,
\* a fetch it started for request_page and request_all_pages, an earlier
\* undelivered one for a direct wait) and during which the source invoked no
\* callback ends by raising RuntimeError with the timeout message.
C6_TimeoutLaw ==
    (/\ Over
     /\ ~opCb
     /\ \/ op = "construct"
        \/ op \in {"request_page", "request_all_pages"} /\ Fetched
        \/ op = "wait" /\ pre.requested # pre.retrieved)
    => result = Raised("RuntimeError", TimeoutMessage)

C6_Witness ==
    /\ op = "request_all_pages"
    /\ pc = "idle"
    /\ Fetched
    /\ ~opCb
    /\ result = Raised("RuntimeError", TimeoutMessage)
    /\ Len(pages) >= 1

\* C7: wait leaves normally only at a poll that saw requested_pages ==
\* retrieved_pages before the bound elapsed; otherwise it leaves by raising
\* the timeout failure, and only once the bound has elapsed; and no step of
\* wait changes pages, the counters or error.
C7_WaitContract ==
    [][/\ (pc = "wait_loop" /\ pc' # pc /\ result'.kind # "raise") =>
             /\ requested_pages = retrieved_pages
             /\ now < expiry
             /\ pc' \in {"idle", "rap_check"}
       /\ (pc = "wait_loop" /\ pc' # pc /\ result'.kind = "raise") =>
             /\ ~(now < expiry)
             /\ result' = Raised("RuntimeError", TimeoutMessage)
             /\ pc' \in {"idle", "dead"}
       /\ (pc \in InWait /\ (pc' # pc \/ now' # now)) =>
             UNCHANGED fetcherVars]_vars

C7_Witness ==
    /\ op = "wait"
    /\ pc = "idle"
    /\ result = Returned
    /\ requested_pages = retrieved_pages
    /\ requested_pages >= 2

\* C8: once the source has invoked the error callback while an operation had
\* its request out, that operation never goes on past its wait and never
\* returns normally: it stays in wait until it ends in a failure.
C8_ErrorSurfaced ==
    opErr => \/ pc \in RequestOut
             \/ pc \in {"idle", "dead"} /\ result.kind = "raise"

C8_Witness ==
    /\ opErr
    /\ op = "request_page"
    /\ pc = "idle"
    /\ result.kind = "raise"

\* C9: every call handle_error(exc) stores exc in error and raises the same
\* exc into the context that invoked the callback, and leaves pages and both
\* counters as they were.
C9_HandleError ==
    [][failed' # failed =>
          /\ failed' = Append(failed, error')
          /\ cbRaised' = error'
          /\ UNCHANGED <<pages, requested_pages, retrieved_pages>>]_vars

C9_Witness ==
    /\ failed # <<>>
    /\ error = failed[Len(failed)]
    /\ cbRaised = error
    /\ Constructed
    /\ retrieved_pages < requested_pages

\* C10: at every step at which wait returns normally, each counted retrieval
\* has its page in pages (retrieved_pagecount() == retrieved_pages) and the
\* last page holds all the rows of the last delivery.
C10_WaitSeesWholePages ==
    [][(pc = "wait_loop" /\ pc' # pc /\ result'.kind # "raise") =>
          /\ Len(pages') = retrieved_pages'
          /\ Len(pages') = Len(delivered')
          /\ Len(pages'[Len(pages')]) = Len(delivered'[Len(delivered')])]_vars

\* The sum of the entries of a sequence of numbers.
RECURSIVE Sum(_)
Sum(s) == IF s = <<>> THEN 0 ELSE Head(s) + Sum(Tail(s))

\* s is t cut after its first Len(s) entries.
IsPrefix(s, t) == Len(s) <= Len(t) /\ s = SubSeq(t, 1, Len(s))

\* C12: in every reachable state the length of all_retrieved_data() is the
\* sum of the entries of num_results_all_pages().
C12_LengthIsSum == Len(all_retrieved_data) = Sum(num_results_all_pages)

C12_Witness ==
    /\ Len(pages) >= 2
    /\ Len(pages[1]) = 2
    /\ cb = "rows"
    /\ Len(all_retrieved_data) = 3

C14_OneIndexed ==
    \A n \in 1..retrieved_pagecount :
        /\ retrieved_page_data(n).exc = ""
        /\ retrieved_page_data(n).val = pages[n]
        /\ IsPrefix(retrieved_page_data(n).val, delivered[n])
        /\ num_results(n).exc = ""
        /\ num_results(n).val = Len(retrieved_page_data(n).val)
        /\ num_results(n).val = num_results_all_pages[n]

C14_Witness ==
    /\ pc = "idle"
    /\ cb = "idle"
    /\ retrieved_pagecount = 3
    /\ num_results(1).val = 2
    /\ num_results(2).val = 1
    /\ num_results(3).val = 0

\* The page numbers a caller may pass, in range or not.
PageNums == (0 - (MaxPages + 1))..(MaxPages + 1)

\* C15: on a constructed fetcher, num_results(n) and retrieved_page_data(n)
\* raise the out-of-bounds failure for every n outside
\* 1..retrieved_pagecount(), n = 0 and negative n included.
C15_OutOfRangeRaises ==
    (Constructed /\ pc = "idle") =>
        \A n \in PageNums \ (1..retrieved_pagecount) :
            /\ num_results(n).exc = "IndexError"
            /\ retrieved_page_data(n).exc = "IndexError"

\* C16: the callbacks, once registered, stay registered, a wait that raises
\* the timeout leaves the outstanding fetches at the source as they are, and
\* every page the source hands over is counted in retrieved_pages and then
\* appended to pages, whatever the caller has done meanwhile.
C16_TimeoutDoesNotCancel ==
    [][/\ registered => registered'
       /\ (pc \in InWait /\ result'.kind = "raise") =>
             (registered' /\ inflight' = inflight)
       /\ (delivered' # delivered /\ retrieved_pages # None) =>
             (retrieved_pages' = retrieved_pages + 1 /\ cb' = "new")
       /\ (cb = "new" /\ cb' # "new") =>
             Len(pages') = Len(pages) + 1]_vars

C16_Witness ==
    /\ late
    /\ cb = "idle"
    /\ pc = "idle"
    /\ result = Raised("RuntimeError", TimeoutMessage)
    /\ retrieved_pages = pre.retrieved + 1
    /\ Len(pages) = pre.pagecount + 1
    /\ Concat(pages) = Concat(delivered)

\* C17: in every state in which the caller reads future.has_more_pages (the
\* tests of request_page and request_all_pages) or can read it through the
\* property of the fetcher it holds, the first page has been retrieved.
C17_FirstPageBeforeQuery ==
    (pc \in {"idle", "rp_check", "rap_check"}) =>
        (retrieved_pages >= 1 /\ Len(delivered) >= 1)

C17_Witness ==
    /\ pc = "rp_check"
    /\ op = "request_page"
    /\ retrieved_pages = 1
    /\ has_more_pages

C18_OrderIndependent ==
    (shuffled /\ fpc \in {"sets", "done"}) => setA = setB

C18_Witness ==
    /\ shuffled
    /\ fpc = "done"
    /\ rowsB # rowsA
    /\ Cardinality(setA) = 2

\* C19: assertIsSubsetOf(A, B) passes exactly when every flattened string of
\* A occurs at least once among the flattened strings of B, and it gives the
\* same outcome when every row of A and of B is listed twice.
C19_SubsetLaw ==
    fpc = "done" =>
        /\ verdict = "pass" <=>
              \A i \in DOMAIN flatA : \E j \in DOMAIN flatB : flatA[i] = flatB[j]
        /\ verdict = "pass" <=> assertIsSubsetOf(rowsA \o rowsA, rowsB \o rowsB)
        /\ verdict \in {"pass", "AssertionError"}

C19_Witness ==
    /\ fpc = "done"
    /\ ~shuffled
    /\ verdict = "pass"
    /\ Len(rowsA) = 2
    /\ Len(rowsB) = 1
    /\ rowsA[1] # rowsA[2]

\* The items of a record, whatever order the dict lists them in.
Items(d) == {d[i] : i \in DOMAIN d}

\* The string of a record with items S (keys distinct): the item with the
\* smallest key as key__value, then "__" and the string of the others.
RECURSIVE Canonical(_)
Canonical(S) ==
    IF S = {} THEN <<>>
    ELSE LET it == CHOOSE x \in S : \A y \in S \ {x} : StrLess(x[1], y[1])
             head == it[1] \o <<"_", "_">> \o Str(it[2])
         IN IF S = {it} THEN head
            ELSE head \o <<"_", "_">> \o Canonical(S \ {it})

\* C20: flatten returns one string per record, in input order; each is the
\* record's key__value items in ascending key order joined by "__"; so two
\* records with the same items flatten to the same string whatever their
\* column order.
C20_FlattenCanonical ==
    fpc \in {"flattened", "sets", "done"} =>
        /\ Len(flatA) = Len(rowsA)
        /\ Len(flatB) = Len(rowsB)
        /\ \A i \in DOMAIN rowsA : flatA[i] = Canonical(Items(rowsA[i]))
        /\ \A i \in DOMAIN rowsB : flatB[i] = Canonical(Items(rowsB[i]))
        /\ \A i \in DOMAIN rowsA, j \in DOMAIN rowsB :
              Items(rowsA[i]) = Items(rowsB[j]) => flatA[i] = flatB[j]

C20_Witness ==
    /\ fpc = "flattened"
    /\ Len(rowsA) = 1
    /\ Len(rowsB) = 1
    /\ rowsA[1] # rowsB[1]
    /\ Items(rowsA[1]) = Items(rowsB[1])
    /\ flatA[1] = <<"i", "d", "_", "_", "1", "_", "_", "v", "_", "_", "1">>
    /\ flatB[1] = flatA[1]

\* The records of a sequence, each as its set of items.
RecordSet(rows) == {Items(rows[i]) : i \in DOMAIN rows}

\* How often the record with items S occurs in a sequence.
Multiplicity(rows, S) == Cardinality({i \in DOMAIN rows : Items(rows[i]) = S})

\* C21: assertEqualIgnoreOrder(A, B) passes exactly when every record occurs
\* in A as often as in B, whatever the order of the rows; when A and B hold
\* the same records and differ only in how often one occurs it fails, while
\* assertIsSubsetOf(A, B) passes.
C21_EqualIgnoreOrder ==
    fpc = "compared" =>
        /\ verdictEq \in {"pass", "AssertionError"}
        /\ verdictEq = "pass" <=>
              \A S \in RecordSet(rowsA) \cup RecordSet(rowsB) :
                  Multiplicity(rowsA, S) = Multiplicity(rowsB, S)
        /\ shuffled => verdictEq = "pass"
        /\ (/\ RecordSet(rowsA) = RecordSet(rowsB)
            /\ \E S \in RecordSet(rowsA) :
                  Multiplicity(rowsA, S) # Multiplicity(rowsB, S))
           => (verdictEq = "AssertionError" /\ verdict = "pass")

C21_Witness ==
    /\ fpc = "compared"
    /\ Len(rowsA) = 2
    /\ Len(rowsB) = 1
    /\ RecordSet(rowsA) = RecordSet(rowsB)
    /\ rowsA[1] # rowsA[2]
    /\ verdictEq = "AssertionError"
    /\ verdict = "pass"

\* The N of a declared row: its prefix, 1 when it has none.
Copies(r) == IF r.mult = None THEN 1 ELSE r.mult

\* The record a declared row stands for: its cells under the headers.
RecordOf(r) == [j \in DOMAIN Headers |-> <<Headers[j], r.cells[j]>>]

\* The records a fixture stands for: N copies of each row's record, the rows
\* in the order of their declaration.
RECURSIVE Declared(_)
Declared(rows) ==
    IF rows = <<>> THEN <<>>
    ELSE [i \in 1..Copies(Head(rows)) |-> RecordOf(Head(rows))]
         \o Declared(Tail(rows))

\* C22: parse_data_into_dicts returns one record per unprefixed row and N per
\* row prefixed with *N, in declaration order and without the header line,
\* each record a dict of the row's cells under the headers, and it calls a
\* format function once per returned record and formatted column.
C22_FixtureRows ==
    xpc = "parsed" =>
        /\ Len(parsed.values) = Len(Declared(fixture))
        /\ \A i \in DOMAIN parsed.values :
              /\ parsed.values[i].kind = "dict"
              /\ [j \in DOMAIN parsed.values[i].items |->
                     <<parsed.values[i].items[j][1],
                       parsed.values[i].items[j][2].raw>>]
                 = Declared(fixture)[i]
              /\ \A j \in DOMAIN parsed.values[i].items :
                    parsed.values[i].items[j][2].formatted
                        <=> parsed.values[i].items[j][1] \in format_funcs
        /\ parsed.calls = Len(Declared(fixture)) * Cardinality(format_funcs)

\* The query had no results: the source's first delivery held zero rows and
\* it reports no more pages; and no callback is running.
NoResults ==
    /\ Len(delivered) = 1
    /\ delivered[1] = <<>>
    /\ ~has_more_pages
    /\ cb = "idle"

\* C23: once a source has delivered an empty first page and reports no more
\* pages, the constructor's wait finds the counters equal (the empty page
\* counts as the retrieved first page, so every later poll returns), a
\* constructed fetcher holds that one page, no fetch is ever issued,
\* request_all_pages() returns normally and all_retrieved_data() is empty.
C23_NoResultsNoError ==
    NoResults =>
        /\ (op = "construct" /\ pc \in InWait) =>
              requested_pages = retrieved_pages
        /\ Constructed => (retrieved_pages = 1 /\ retrieved_pagecount = 1)
        /\ fetchCalls = 0
        /\ all_retrieved_data = <<>>
        /\ (op = "request_all_pages" /\ Over) => result = Returned

\* The row count the i-th page should have: the fetch size its fetch began
\* with, or what the earlier pages left of the rows if that is less.
RECURSIVE PageSizeDue(_)
PageSizeDue(i) ==
    LET before == Sum([j \in 1..(i - 1) |-> PageSizeDue(j)])
    IN Min(fetch_size[i], TotalRows - before)

\* A page of pages whose delivery is over.
Complete(i) == i \in 1..Len(pages) /\ (i < Len(pages) \/ cb = "idle")

RapReturns == op = "request_all_pages" /\ pc = "rap_check" /\ pc' = "idle"
RapRaises  == op = "request_all_pages" /\ pc \in InWait /\ result'.kind = "raise"

\* C25: a running request_all_pages() ends; against a prompt source it ends
\* by returning normally with the source exhausted. It calls
\* start_fetching_next_page only from its loop body, once per turn, and
\* follows each call by a wait of wait's default bound; it returns
\* only on finding the source exhausted, having fetched once per page it
\* asked for; and the first wait that times out ends it, with no fetch
\* after it.
C25_AllPagesTerminates ==
    /\ (op = "request_all_pages" /\ pc # "idle")
          ~> (/\ op = "request_all_pages" /\ pc = "idle"
              /\ prompt => (result = Returned /\ ~has_more_pages))
    /\ [][/\ (op = "request_all_pages" /\ fetchCalls' # fetchCalls) =>
                (pc = "rap_fetch" /\ pc' = "rap_inc"
                    /\ fetchCalls' = fetchCalls + 1)
          /\ (pc = "rap_inc" /\ pc' # pc) =>
                (pc' = "wait_start" /\ seconds' = DefaultSeconds)
          /\ RapReturns =>
                (/\ result' = Returned
                 /\ ~has_more_pages
                 /\ fetchCalls' - pre.fetches = requested_pages' - pre.requested
                 /\ prompt => Len(delivered) = 1 + fetchCalls)
          /\ RapRaises =>
                (/\ pc' = "idle"
                 /\ ~(now < expiry)
                 /\ result' = Raised("RuntimeError", TimeoutMessage)
                 /\ fetchCalls' = fetchCalls)
          /\ pc = "idle" => fetchCalls' = fetchCalls]_vars

C25_Witness ==
    /\ prompt
    /\ op = "request_all_pages"
    /\ pc = "idle"
    /\ result = Returned
    /\ fetchCalls - pre.fetches = 2
    /\ Len(pages) = 3

\* A step of the caller that calls start_fetching_next_page.
Fetches == fetchCalls' # fetchCalls

\* C26: the fetcher retries nothing. Whenever the caller is between
\* operations, requested_pages is 1 plus the start_fetching_next_page calls
\* made so far. A fetch is made only by request_page or request_all_pages
\* right after finding has_more_pages true in their test, one at a time and
\* at most once per request_page; the step at which an operation raises
\* makes none and ends the operation, and a handle_error call makes none
\* and leaves the caller where it is.
C26_NoRetries ==
    [][/\ pc' \in {"idle", "dead"} => requested_pages' = 1 + fetchCalls'
       /\ Fetches =>
             (/\ pc \in {"rp_fetch", "rap_fetch"}
              /\ fetchCalls' = fetchCalls + 1
              /\ result.kind = "none")
       /\ (pc' \in {"rp_fetch", "rap_fetch"} /\ pc' # pc) =>
             (pc \in {"rp_check", "rap_check"} /\ has_more_pages)
       /\ op = "request_page" => fetchCalls' - pre.fetches <= 1
       /\ (result.kind # "raise" /\ result'.kind = "raise") =>
             (pc' \in {"idle", "dead"} /\ ~Fetches)
       /\ failed' # failed => (~Fetches /\ pc' = pc /\ op' = op)
       /\ pc \in {"idle", "dead"} => ~Fetches]_vars

C26_Witness ==
    /\ pc = "idle"
    /\ op = "request_all_pages"
    /\ result = Raised("RuntimeError", TimeoutMessage)
    /\ opErr
    /\ pre.fetches = 1
    /\ fetchCalls = 2
    /\ requested_pages = 3

\* C27: no step of the fetcher - a later page's arrival, an error callback,
\* request_page, request_all_pages, wait - changes the rows or the position
\* of a page whose delivery is over; pages never gets shorter; and a counter
\* that has been set never goes down.
C27_AppendOnly ==
    [][/\ \A i \in 1..Len(pages) :
              Complete(i) => (Len(pages') >= i /\ pages'[i] = pages[i])
       /\ Len(pages') >= Len(pages)
       /\ Len(pages') > Len(pages) =>
              (Len(pages') = Len(pages) + 1 /\ pages'[Len(pages')] = <<>>)
       /\ requested_pages # None => requested_pages' >= requested_pages
       /\ retrieved_pages # None => retrieved_pages' >= retrieved_pages]_vars

C27_Witness ==
    /\ Len(pages) = 3
    /\ Complete(1)
    /\ pages[1] # <<>>
    /\ cb = "rows"
    /\ failed # <<>>
    /\ op = "request_all_pages"
    /\ late

\* A step of the caller's thread: it moves on in its code, or spins in
\* wait's loop while the clock moves. Every other step is a callback's.
CallerMoves == pc' # pc \/ now' # now

InInit == {"init", "init_requested", "init_retrieved"}

\* C28 as stated: pages, requested_pages and retrieved_pages are written by
\* the callbacks only; once the fetcher is being waited on or asked for
\* pages, no step of the caller changes any of the three.
C28_SingleWriter ==
    [][(CallerMoves /\ pc \notin InInit) =>
          UNCHANGED <<pages, requested_pages, retrieved_pages>>]_vars

\* C28, amended: each of the three has one writer once __init__ has set it.
\* The callbacks write pages and retrieved_pages and never requested_pages;
\* request_page and request_all_pages write requested_pages, at their
\* += 1, and nothing else of the three; wait's loop writes none; __init__
\* writes all three, each at its own assignment.
C28_Writers ==
    [][/\ ~CallerMoves => requested_pages' = requested_pages
       /\ (CallerMoves /\ pc \notin InInit) =>
             UNCHANGED <<pages, retrieved_pages>>
       /\ (CallerMoves /\ pc \notin {"init_requested", "rp_inc", "rap_inc"}) =>
             requested_pages' = requested_pages
       /\ (CallerMoves /\ pc \in {"rp_inc", "rap_inc"}) =>
             requested_pages' = requested_pages + 1
       /\ (CallerMoves /\ pc = "init") =>
             UNCHANGED <<requested_pages, retrieved_pages>>
       /\ (CallerMoves /\ pc = "init_requested") =>
             (requested_pages' = 1 /\ UNCHANGED <<pages, retrieved_pages>>)
       /\ (CallerMoves /\ pc = "init_retrieved") =>
             (retrieved_pages' = 0 /\ UNCHANGED <<pages, requested_pages>>)]_vars

C28_Witness ==
    /\ op = "request_page"
    /\ pc = "wait_loop"
    /\ requested_pages = 2
    /\ retrieved_pages = 2
    /\ cb = "rows"
    /\ Len(pages) = 2

\* The constructor is over, by returning or by raising.
ConstructOver == op = "construct" /\ pc \in {"idle", "dead"}

\* C29: a first page handed to handle_page at any moment after add_callbacks
\* registered it is recorded as pages[1], and against a prompt source the
\* constructor ends by returning normally with requested_pages =
\* retrieved_pages = 1.
C29_FirstPageNotLost ==
    /\ (Len(delivered) >= 1 /\ cb = "idle") =>
          (Len(pages) >= 1 /\ pages[1] = delivered[1])
    /\ (prompt /\ ConstructOver) =>
          (result = Returned /\ requested_pages = 1 /\ retrieved_pages = 1)

\* C30: from the moment __init__ has set the counter, whenever no handle_page
\* call is under way retrieved_pagecount() equals retrieved_pages, whatever
\* requests, deliveries, errors and timeouts came before.
C30_PagecountIsRetrieved ==
    (retrieved_pages # None /\ cb = "idle") =>
        retrieved_pagecount = retrieved_pages

C30_Witness ==
    /\ cb = "idle"
    /\ retrieved_pages = 2
    /\ retrieved_pagecount = 2
    /\ requested_pages = 3
    /\ failed # <<>>
    /\ result = Raised("RuntimeError", TimeoutMessage)
    /\ late

\* The last request_page / request_all_pages ended with the timeout failure.
TimedOut ==
    /\ pc = "idle"
    /\ op \in {"request_page", "request_all_pages"}
    /\ result = Raised("RuntimeError", TimeoutMessage)

\* The pages asked of the source that it has not handed over yet.
Missing == 1 + fetchCalls - Len(delivered)

\* C31: a request that timed out is not taken back. After the failure
\* requested_pages still counts every fetch the operation made, and between
\* operations requested_pages exceeds retrieved_pages by exactly the pages
\* the source has not handed over, so it stays above until they come. A
\* request_page that starts with a page missing and fetches ends with the
\* timeout failure as long as no more than one page - its own - has come
\* since its call.
C31_TimeoutNotRolledBack ==
    /\ TimedOut => requested_pages = pre.requested + (fetchCalls - pre.fetches)
    /\ pc = "idle" => requested_pages - retrieved_pages = Missing
    /\ (/\ op = "request_page" /\ pc = "idle" /\ Fetched
        /\ pre.requested > pre.retrieved
        /\ retrieved_pages - pre.retrieved <= 1)
       => result = Raised("RuntimeError", TimeoutMessage)

C31_Witness ==
    /\ TimedOut
    /\ op = "request_page"
    /\ Fetched
    /\ pre.requested = pre.retrieved + 1
    /\ retrieved_pages = pre.retrieved + 1
    /\ requested_pages = retrieved_pages + 1
    /\ cb = "idle"
    /\ ~late
    /\ failed = <<>>

\* C32: a direct wait called with requested_pages == retrieved_pages ends by
\* returning normally, whatever its bound: 0, or one that elapses before
\* the loop's first poll.
C32_NothingOutstanding ==
    (op = "wait" /\ Over /\ pre.requested = pre.retrieved) => result = Returned

\* C33: two row-records that flatten to the same string are equal records,
\* so that when assertIsSubsetOf passes every record of the subset equals a
\* record of the superset - also for values of different types that render
\* alike, such as the integer 1 and the text "1".
C33_FlattenInjective ==
    /\ fpc \in {"flattened", "sets", "done", "compared"} =>
          \A i \in DOMAIN rowsA, j \in DOMAIN rowsB :
              flatA[i] = flatB[j] => PyDictEq(rowsA[i], rowsB[j])
    /\ verdict = "pass" =>
          \A i \in DOMAIN rowsA :
              \E j \in DOMAIN rowsB : PyDictEq(rowsA[i], rowsB[j])

====
